---- MODULE Spec2Model ----
(***************************************************************************)
(* Model of the battery pickup service: the PackagingSystem order store    *)
(* (package_data.py), its pricing computation, and the /quote front door   *)
(* (app.py), run by several concurrent request threads.                    *)
(*                                                                         *)
(* Python values are encoded so that TLC never compares values of          *)
(* different types:                                                        *)
(*   - an optional object (location, date, total_cost, df) is a sequence:  *)
(*     <<>> is None and <<v>> is the value v;                              *)
(*   - the same holds for a slot of a record and for an order id: <<>> is   *)
(*     a slot that is None, <<"Virginia">> one that is set;                *)
(*   - floats are fixed point integers: money is kept in 1/10000 dollar    *)
(*     while it is summed, multipliers are hundredths, and the quoted      *)
(*     total is in cents after round(_, 2).                                *)
(***************************************************************************)
EXTENDS Integers, Sequences, FiniteSets, TLC

\* ------------------------------------------------------------------ bounds

\* Total number of calls the request threads may start in one run.
MaxCalls == 3

\* ------------------------------------------------------------- value types

None == <<>>
Some(v) == <<v>>
IsNone(x) == x = <<>>

Threads == {"t1", "t2"}

\* LocationInformation.__slots__ and DateInformation.__slots__
LocationSlots == {"state", "city", "street_address", "zip_code"}
DateSlots == {"day", "month", "year"}

LocA == [state |-> Some("Virginia"), city |-> Some("Virginia Beach"),
         street_address |-> Some("123 Example Street"), zip_code |-> Some("12345")]
LocB == [state |-> Some("North Carolina"), city |-> Some("Virginia Beach"),
         street_address |-> Some("123 Example Street"), zip_code |-> Some("12345")]
\* a location one of whose slots is None
LocPartial == [state |-> Some("Virginia"), city |-> Some("Virginia Beach"),
               street_address |-> Some("123 Example Street"), zip_code |-> None]

DateSep == [day |-> Some(20), month |-> Some(9), year |-> Some(2023)]
DateOct == [day |-> Some(20), month |-> Some(10), year |-> Some(2023)]

\* DateInformation.__ge__, lines 49-50: the order of the datetimes of two
\* dates whose fields are all set
DateGe(self, other) ==
    LET y1 == self.year[1]   y2 == other.year[1]
        m1 == self.month[1]  m2 == other.month[1]
        d1 == self.day[1]    d2 == other.day[1]
    IN  \/ y1 > y2
        \/ y1 = y2 /\ m1 > m2
        \/ y1 = y2 /\ m1 = m2 /\ d1 >= d2

\* BaseData.__eq__: every slot is set on both sides and the values agree.
BaseDataEq(self, other, slots) ==
    \A s \in slots :
        ~ (IsNone(self[s]) \/ IsNone(other[s]) \/ self[s] # other[s])

\* getattr(other, slot, None) of an attribute that holds None is None for
\* every slot, so comparing with an absent object is False.
OptEq(selfObj, otherOpt, slots) ==
    IF IsNone(otherOpt) THEN FALSE ELSE BaseDataEq(selfObj, otherOpt[1], slots)

\* ------------------------------------------------------------ order objects

\* BatteryPackage values
PkgLi75 == [battery_type |-> "li-ion", battery_weight |-> 1, quality |-> 75,
            return_reason |-> "old"]
PkgLi40 == [battery_type |-> "li-ion", battery_weight |-> 12, quality |-> 40,
            return_reason |-> "dead"]
PkgNicd == [battery_type |-> "nicd", battery_weight |-> 3, quality |-> 100,
            return_reason |-> "spare"]
PkgOdd  == [battery_type |-> "alkaline", battery_weight |-> 2, quality |-> 60,
            return_reason |-> "unknown type"]

\* The Order objects a run may construct.  An object is a reference; its
\* constructor/from_dict fields never change after construction, its
\* total_cost, df and accepted fields are state (see the variables).
Refs == {"o1", "o2", "o3", "o4", "o5"}

OrderData ==
    [r \in Refs |->
        CASE r = "o1" -> [order_id |-> Some(1), location |-> Some(LocA),
                          date |-> Some(DateSep), distance_to_ship |-> 0,
                          packages |-> <<PkgLi75>>]
          [] r = "o2" -> [order_id |-> Some(2), location |-> Some(LocA),
                          date |-> Some(DateOct), distance_to_ship |-> 30,
                          packages |-> <<>>]
          [] r = "o3" -> [order_id |-> Some(1), location |-> Some(LocB),
                          date |-> Some(DateSep), distance_to_ship |-> 10,
                          packages |-> <<PkgLi75, PkgLi40, PkgNicd>>]
          [] r = "o4" -> [order_id |-> Some(3), location |-> Some(LocPartial),
                          date |-> None, distance_to_ship |-> 5,
                          packages |-> <<PkgNicd, PkgOdd>>]
          [] r = "o5" -> [order_id |-> None, location |-> None,
                          date |-> None, distance_to_ship |-> 0,
                          packages |-> <<>>]]

\* the ids /quote requests ask for: a quote, or an acceptance
QuoteIds == {Some(1), Some(2), Some(3)}
AcceptIds == {Some(1), Some(2)}

\* --------------------------------------------------------- rate configuration

\* The json configuration handed to PackagingSystem.__init__.  Multipliers are
\* hundredths, base values are cents, percents are whole percents.
ConfigA ==
    [qualities |-> << [max_percent |-> 50, multiplier |-> 50],
                      [max_percent |-> 100, multiplier |-> 100] >>,
     weights   |-> << [max_weight |-> 10, multiplier |-> 100],
                      [max_weight |-> 999, multiplier |-> 150] >>,
     distance  |-> << [min_distance |-> 0, multiplier |-> 100],
                      [min_distance |-> 20, multiplier |-> 200] >>,
     battery_base_value |-> [t \in {"li-ion", "nicd"} |->
                                IF t = "li-ion" THEN 1000 ELSE 500],
     bonus     |-> << [min_packages |-> 2, percent |-> 10] >>]

\* overlapping tiers, large base values, a total with a fraction of a cent
ConfigB ==
    [qualities |-> << [max_percent |-> 100, multiplier |-> 55],
                      [max_percent |-> 80, multiplier |-> 101],
                      [max_percent |-> 30, multiplier |-> 10] >>,
     weights   |-> << [max_weight |-> 999, multiplier |-> 25],
                      [max_weight |-> 5, multiplier |-> 300] >>,
     distance  |-> << [min_distance |-> 0, multiplier |-> 100],
                      [min_distance |-> 5, multiplier |-> 333],
                      [min_distance |-> 50, multiplier |-> 1000] >>,
     battery_base_value |-> [t \in {"li-ion", "nicd"} |->
                                IF t = "li-ion" THEN 30001 ELSE 12345],
     bonus     |-> << [min_packages |-> 1, percent |-> 5],
                      [min_packages |-> 3, percent |-> 25],
                      [min_packages |-> 2, percent |-> 15] >>]

Configs == {ConfigA, ConfigB}

\* ------------------------------------------------------------------ pricing

\* the price floor of quote(), 100.00, in cents
MinTotal == 10000

Max2(a, b) == IF a >= b THEN a ELSE b

\* round(x, 2) of a non-negative amount n given in 1/1000000 dollar, as cents:
\* the nearest cent, a tie going to the even cent.
RoundCents(n) ==
    LET q == n \div 10000
        r == n % 10000
    IN  IF r > 5000 \/ (r = 5000 /\ q % 2 = 1) THEN q + 1 ELSE q

\* quote(), lines 274-277: the last tier at or below the distance wins.
RECURSIVE DistanceLoop(_, _, _, _)
DistanceLoop(tiers, i, distance, mult) ==
    IF i > Len(tiers) THEN mult
    ELSE DistanceLoop(tiers, i + 1, distance,
                      IF distance >= tiers[i].min_distance
                      THEN tiers[i].multiplier ELSE mult)

DistanceMult(tiers, distance) == DistanceLoop(tiers, 1, distance, 100)

\* quote(), lines 284-287: the last tier at or above the quality wins.
RECURSIVE QualityLoop(_, _, _, _)
QualityLoop(tiers, i, quality, mult) ==
    IF i > Len(tiers) THEN mult
    ELSE QualityLoop(tiers, i + 1, quality,
                     IF quality <= tiers[i].max_percent
                     THEN tiers[i].multiplier ELSE mult)

QualityMult(tiers, quality) == QualityLoop(tiers, 1, quality, 0)

\* faulty variant: no break, the last tier at or above the weight wins
WeightLoop_NoBreak(tiers, i, weight) ==
    LET M == { k \in i..Len(tiers) : weight <= tiers[k].max_weight }
    IN  IF M = {} THEN 100
        ELSE tiers[CHOOSE k \in M : \A j \in M : j <= k].multiplier

\* quote(), lines 300-304: the first tier at or above the weight wins (break).
RECURSIVE WeightLoop(_, _, _)
WeightLoop(tiers, i, weight) ==
    IF i > Len(tiers) THEN 100
    ELSE IF weight <= tiers[i].max_weight THEN tiers[i].multiplier
    ELSE WeightLoop(tiers, i + 1, weight)

WeightMult(tiers, weight) == WeightLoop(tiers, 1, weight)

\* quote(), lines 308-311: the last tier at or below the package count wins.
RECURSIVE BonusLoop(_, _, _, _)
BonusLoop(tiers, i, count, bonus) ==
    IF i > Len(tiers) THEN bonus
    ELSE BonusLoop(tiers, i + 1, count,
                   IF count >= tiers[i].min_packages
                   THEN tiers[i].percent ELSE bonus)

BonusPercent(tiers, count) == BonusLoop(tiers, 1, count, 0)

RECURSIVE SumSeq(_)
SumSeq(s) == IF s = <<>> THEN 0 ELSE s[1] + SumSeq(Tail(s))

\* self.battery_base_value[package.battery_type] raises KeyError for a type
\* the mapping lacks (line 290).
HasKeyError(cfg, packages) ==
    \E i \in 1..Len(packages) :
        packages[i].battery_type \notin DOMAIN cfg.battery_base_value

\* battery_values before the total is appended (line 297), in 1/10000 dollar
PackageValues(cfg, packages) ==
    [i \in 1..Len(packages) |->
        cfg.battery_base_value[packages[i].battery_type]
            * QualityMult(cfg.qualities, packages[i].quality)]

PackageWeights(packages) ==
    [i \in 1..Len(packages) |-> packages[i].battery_weight]

\* base_shipping (line 279), in cents
BaseShipping(cfg, order) ==
    order.distance_to_ship * DistanceMult(cfg.distance, order.distance_to_ship)

\* total_to_pay after line 306, in 1/10000 dollar
Subtotal(cfg, order) ==
    SumSeq(PackageValues(cfg, order.packages))
      - BaseShipping(cfg, order)
          * WeightMult(cfg.weights, SumSeq(PackageWeights(order.packages)))

\* faulty variant: the bonus percent is added as an amount of dollars
WithBonus_Flat(subtotal, bonus) == subtotal * 100 + bonus * 1000000

\* total_to_pay after line 313, in 1/1000000 dollar
WithBonus(subtotal, bonus) == subtotal * 100 + subtotal * bonus

\* faulty variant: the total is rounded but not raised to the floor
FloorAndRound_NoFloor(total) ==
    IF total >= 0 THEN RoundCents(total) ELSE 0 - RoundCents(0 - total)

\* line 314: round(max([total_to_pay, 100.00]), 2), in cents
FloorAndRound(total) == RoundCents(Max2(total, MinTotal * 10000))

TotalToPay(cfg, order) ==
    FloorAndRound(WithBonus(Subtotal(cfg, order),
                            BonusPercent(cfg.bonus, Len(order.packages))))

Blank(n) == [i \in 1..n |-> ""]

\* The DataFrame of lines 317-337: one row per index label, one column per
\* package and a last column of totals.
QuoteFrame(cfg, order) ==
    LET n == Len(order.packages)
        values == PackageValues(cfg, order.packages)
        weights == PackageWeights(order.packages)
    IN  [BatteryType |-> [i \in 1..n |-> order.packages[i].battery_type] \o <<"">>,
         Weight |-> weights \o <<SumSeq(weights)>>,
         Quality |-> [i \in 1..n |-> order.packages[i].quality] \o <<"">>,
         AssessedValue |-> values \o <<SumSeq(values)>>,
         Bonus |-> Blank(n) \o <<BonusPercent(cfg.bonus, n)>>,
         Shipping |-> Blank(n) \o <<BaseShipping(cfg, order)>>,
         Total |-> Blank(n) \o <<TotalToPay(cfg, order)>>]

\* -------------------------------------------------------------------- state

VARIABLES
    cfg,         \* the rate tables set by PackagingSystem.__init__
    booted,      \* app.py has run _add_simulated_data and serves requests
    orders,      \* PackagingSystem.orders: order_id -> Order object
    total_cost,  \* Order.total_cost of every object, None until priced
    df,          \* Order.df of every object
    accepted,    \* Order.accepted of every object
    lock,        \* PackagingSystem._order_lock: None, or the holder
    pc,          \* where each request thread stands
    call,        \* the call each thread is in
    local,       \* the local variables of that call
    last,        \* the call that returned last: its thread, arguments, result
    calls,       \* number of calls started so far
    priced,      \* history: how often lines 267-337 ran for an object
    submitted,   \* history: the objects handed to add_order so far
    seeded       \* history: the objects _add_simulated_data stored

vars == <<cfg, booted, orders, total_cost, df, accepted, lock, pc, call,
          local, last, calls, priced, submitted, seeded>>

\* return values: the kind says how to read val
RetNone == [kind |-> "None", val |-> <<>>]
RetList(l) == [kind |-> "list", val |-> l]
RetFloat(x) == [kind |-> "float", val |-> <<x>>]
RetFrame(f) == [kind |-> "DataFrame", val |-> <<f>>]
RaisedKeyError == [kind |-> "KeyError", val |-> <<>>]
RetResponse(msg, code) == [kind |-> "response", val |-> <<msg, code>>]

NoCall == [op |-> "none"]
NoLocal == [none |-> TRUE]

\* the seed files app.py may find: the orders of simulation.json, in order
SeedLists == { <<"o5">>, <<"o3", "o1", "o2">> }

\* what a request may ask for: <<order_id, location, date>> of a search
IdQueries == { <<Some(1), None, None>>, <<Some(2), Some(LocB), Some(DateOct)>> }
LocationQueries == { <<None, Some(LocA), None>>, <<None, Some(LocA), Some(DateSep)>>,
                     <<None, Some(LocPartial), None>> }
NoLocationQueries == { <<None, None, None>>, <<None, None, Some(DateSep)>> }
\* the "accept" member of a /quote request: a json value with its python type
AcceptValues == { <<"bool", TRUE>>, <<"bool", FALSE>>, <<"str", "sdfasdf">> }

\* dict.get(key, None)
DictGet(d, k) == IF k \in DOMAIN d THEN Some(d[k]) ELSE None

\* faulty variant: the store replaces the mapping by one that holds only the new key
DictSet_Replacing(d, k, v) == [x \in {k} |-> v]

\* d[k] = v
DictSet(d, k, v) == [x \in DOMAIN d \cup {k} |-> IF x = k THEN v ELSE d[x]]

Init ==
    /\ cfg \in Configs
    /\ booted = FALSE
    /\ orders = <<>>
    /\ total_cost = [r \in Refs |-> None]
    /\ df = [r \in Refs |-> None]
    /\ accepted = [r \in Refs |-> FALSE]
    /\ lock = None
    /\ pc = [t \in Threads |-> "idle"]
    /\ call = [t \in Threads |-> NoCall]
    /\ local = [t \in Threads |-> NoLocal]
    /\ last = [thread |-> "", call |-> NoCall, ret |-> RetNone]
    /\ calls = 0
    /\ priced = [r \in Refs |-> 0]
    /\ submitted = {}
    /\ seeded = {}

\* --------------------------------------------------------------- seed loading

\* _add_simulated_data, lines 192-200: every seed with an id is stored under
\* it, a later seed replacing an earlier one of the same id.
RECURSIVE LoadSeeds(_, _, _)
LoadSeeds(d, seeds, i) ==
    IF i > Len(seeds) THEN d
    ELSE LoadSeeds(IF ~ IsNone(OrderData[seeds[i]].order_id)
                   THEN DictSet(d, OrderData[seeds[i]].order_id, seeds[i])
                   ELSE d,
                   seeds, i + 1)

AddSimulatedData(seeds) ==
    /\ ~ booted
    /\ booted' = TRUE
    /\ orders' = LoadSeeds(orders, seeds, 1)
    /\ seeded' = {orders'[k] : k \in DOMAIN orders'}
    /\ UNCHANGED <<cfg, total_cost, df, accepted, lock, pc, call, local, last,
                   calls, priced, submitted>>

\* ------------------------------------------------------------ call and return

CanCall(t) == booted /\ pc[t] = "idle" /\ calls < MaxCalls

Begin(t, c, l, at) ==
    /\ call' = [call EXCEPT ![t] = c]
    /\ local' = [local EXCEPT ![t] = l]
    /\ pc' = [pc EXCEPT ![t] = at]
    /\ calls' = calls + 1

Return(t, value) ==
    /\ pc' = [pc EXCEPT ![t] = "idle"]
    /\ call' = [call EXCEPT ![t] = NoCall]
    /\ local' = [local EXCEPT ![t] = NoLocal]
    /\ last' = [thread |-> t, call |-> call[t], ret |-> value]

\* faulty variant: the lock is kept when the block is left
Release_Kept(t) == lock' = lock

Acquire(t) == lock = None /\ lock' = Some(t)
Release(t) == lock' = None

\* a call that returns in the step that starts it
Complete(t, c, value) ==
    /\ last' = [thread |-> t, call |-> c, ret |-> value]
    /\ calls' = calls + 1
    /\ UNCHANGED <<pc, call, local>>

\* ------------------------------------------------------------------ add_order

\* add_order, lines 205-207: the membership test, taken without the lock.
AddOrderCheck(t, r) ==
    /\ CanCall(t)
    /\ submitted' = submitted \cup {r}
    /\ IF OrderData[r].order_id \in DOMAIN orders
       THEN Complete(t, [op |-> "add_order", order |-> r], RetNone)
       ELSE /\ Begin(t, [op |-> "add_order", order |-> r], NoLocal, "add_store")
            /\ UNCHANGED last
    /\ UNCHANGED <<cfg, booted, orders, total_cost, df, accepted, lock, priced,
                   seeded>>

\* add_order, lines 209-210: the store, in a later step of the thread.
AddOrderStore(t) ==
    /\ pc[t] = "add_store"
    /\ orders' = DictSet(orders, OrderData[call[t].order].order_id, call[t].order)
    /\ Return(t, RetNone)
    /\ UNCHANGED <<cfg, booted, total_cost, df, accepted, lock, calls, priced,
                   submitted, seeded>>

\* ---------------------------------------------------------------- find_orders

FindCall(q) ==
    [op |-> "find_orders", order_id |-> q[1], location |-> q[2], date |-> q[3]]

\* faulty variant: the order found by id is dropped when a location is given that
\* is not its location
FindById_Filtering(t, q) ==
    /\ CanCall(t)
    /\ ~ IsNone(q[1])
    /\ Complete(t, FindCall(q),
                RetList(<<IF /\ q[1] \in DOMAIN orders
                             /\ ~ IsNone(q[2])
                             /\ ~ OptEq(q[2][1], OrderData[orders[q[1]]].location,
                                        LocationSlots)
                          THEN None ELSE DictGet(orders, q[1])>>))
    /\ UNCHANGED <<cfg, booted, orders, total_cost, df, accepted, lock, priced,
                   submitted, seeded>>

\* find_orders, lines 222-226: an order_id was given; location and date are
\* not looked at.  The mapping is read without the lock.
FindById(t, q) ==
    /\ CanCall(t)
    /\ ~ IsNone(q[1])
    /\ Complete(t, FindCall(q), RetList(<<DictGet(orders, q[1])>>))
    /\ UNCHANGED <<cfg, booted, orders, total_cost, df, accepted, lock, priced,
                   submitted, seeded>>

\* faulty variant: the search without criteria returns an empty list
FindNoLocation_EmptyList(t, q) ==
    /\ CanCall(t)
    /\ IsNone(q[1]) /\ IsNone(q[2])
    /\ Complete(t, FindCall(q), RetList(<<>>))
    /\ UNCHANGED <<cfg, booted, orders, total_cost, df, accepted, lock, priced,
                   submitted, seeded>>

\* find_orders, lines 228-230: neither an order_id nor a location.
FindNoLocation(t, q) ==
    /\ CanCall(t)
    /\ IsNone(q[1]) /\ IsNone(q[2])
    /\ Complete(t, FindCall(q), RetNone)
    /\ UNCHANGED <<cfg, booted, orders, total_cost, df, accepted, lock, priced,
                   submitted, seeded>>

\* find_orders, line 236: with self._order_lock
FindAcquire(t, q) ==
    /\ CanCall(t)
    /\ IsNone(q[1]) /\ ~ IsNone(q[2])
    /\ Acquire(t)
    /\ Begin(t, FindCall(q), NoLocal, "find_snapshot")
    /\ UNCHANGED <<cfg, booted, orders, total_cost, df, accepted, last, priced,
                   submitted, seeded>>

\* list(self.orders.values()): the objects stored at this moment.  Every
\* object is stored under its own id, so no object occurs twice in the list;
\* the futures of the list complete in any order, which the matching steps
\* below choose, so the list is kept as the set of its elements.
OrderValues(d) == {d[k] : k \in DOMAIN d}

\* find_orders, lines 236-237, and the submission of the location futures
\* (lines 142-148).
FindSnapshot(t) ==
    /\ pc[t] = "find_snapshot"
    /\ lock = Some(t)
    /\ Release(t)
    /\ local' = [local EXCEPT ![t] =
                    [orders |-> OrderValues(orders),
                     pending |-> OrderValues(orders),
                     matching_results |-> <<>>]]
    /\ pc' = [pc EXCEPT ![t] = "find_location"]
    /\ UNCHANGED <<cfg, booted, orders, total_cost, df, accepted, call, last,
                   calls, priced, submitted, seeded>>

\* faulty variant: a slot that is None on either side is skipped, not a mismatch
SimpleCompare_Lenient(x, r, var) ==
    LET other == IF var = "location" THEN OrderData[r].location
                 ELSE OrderData[r].date
    IN  /\ ~ IsNone(other)
        /\ \A s \in DOMAIN x :
              IsNone(x[s]) \/ IsNone(other[1][s]) \/ x[s] = other[1][s]

\* _simple_compare(x, y, var): x == getattr(y, var), by BaseData.__eq__ of x
SimpleCompare(x, r, var) ==
    IF var = "location" THEN OptEq(x, OrderData[r].location, LocationSlots)
    ELSE OptEq(x, OrderData[r].date, DateSlots)

\* _find_inner_data, lines 150-152: the next future to complete is that of
\* object r; its result is appended when it is not None.
Completed(l, x, r, var) ==
    [l EXCEPT !.pending = @ \ {r},
              !.matching_results = IF SimpleCompare(x, r, var)
                                   THEN Append(@, r) ELSE @]

FindCompareLocation(t, r) ==
    /\ pc[t] = "find_location"
    /\ r \in local[t].pending
    /\ local' = [local EXCEPT ![t] =
                    Completed(local[t], call[t].location[1], r, "location")]
    /\ UNCHANGED <<cfg, booted, orders, total_cost, df, accepted, lock, pc,
                   call, last, calls, priced, submitted, seeded>>

RefList(l) == [i \in 1..Len(l) |-> Some(l[i])]
Range(l) == {l[i] : i \in 1..Len(l)}

\* find_orders, lines 241-245 once every location future has completed: the
\* date pass is run when there are results and a date, else they are returned.
FindLocationDone(t) ==
    /\ pc[t] = "find_location"
    /\ local[t].pending = {}
    /\ IF local[t].matching_results # <<>> /\ ~ IsNone(call[t].date)
       THEN /\ local' = [local EXCEPT ![t] =
                           [orders |-> local[t].orders,
                            pending |-> Range(local[t].matching_results),
                            matching_results |-> <<>>]]
            /\ pc' = [pc EXCEPT ![t] = "find_date"]
            /\ UNCHANGED <<call, last>>
       ELSE Return(t, RetList(RefList(local[t].matching_results)))
    /\ UNCHANGED <<cfg, booted, orders, total_cost, df, accepted, lock, calls,
                   priced, submitted, seeded>>

FindCompareDate(t, r) ==
    /\ pc[t] = "find_date"
    /\ r \in local[t].pending
    /\ local' = [local EXCEPT ![t] =
                    Completed(local[t], call[t].date[1], r, "date")]
    /\ UNCHANGED <<cfg, booted, orders, total_cost, df, accepted, lock, pc,
                   call, last, calls, priced, submitted, seeded>>

\* find_orders, line 245 after the date pass
FindDateDone(t) ==
    /\ pc[t] = "find_date"
    /\ local[t].pending = {}
    /\ Return(t, RetList(RefList(local[t].matching_results)))
    /\ UNCHANGED <<cfg, booted, orders, total_cost, df, accepted, lock, calls,
                   priced, submitted, seeded>>

\* ----------------------------------------------------- /quote with "accept"

IsBool(json) == json[1] = "bool"

\* faulty variant: a value that is no boolean is rejected but not replaced by False,
\* so that its truth value reaches quote_reply
AcceptAnswer_Truthy(accept) ==
    IF IsBool(accept)
    THEN [answer |-> accept[2], return_code |-> 200]
    ELSE [answer |-> accept[2] # "", return_code |-> 400]

\* faulty variant: a value that is no boolean is taken as False without an
\* error status
AcceptAnswer_Silent(accept) ==
    IF IsBool(accept)
    THEN [answer |-> accept[2], return_code |-> 200]
    ELSE [answer |-> FALSE, return_code |-> 200]

\* handle_quote_request, lines 139-146: the answer handed to quote_reply and
\* the status code of the response.
AcceptAnswer(accept) ==
    IF IsBool(accept)
    THEN [answer |-> accept[2], return_code |-> 200]
    ELSE [answer |-> FALSE, return_code |-> 400]

\* handle_quote_request, lines 138-148, up to the lock of quote_reply (248)
HandleAcceptRequest(t, order_id, accept) ==
    /\ CanCall(t)
    /\ Acquire(t)
    /\ Begin(t, [op |-> "handle_quote_request", order_id |-> order_id,
                 accept |-> accept],
             AcceptAnswer(accept), "quote_reply")
    /\ UNCHANGED <<cfg, booted, orders, total_cost, df, accepted, last, priced,
                   submitted, seeded>>

\* faulty variant: an accepted order stays accepted
ReplyAccepted_Latched(acc, d, order_id, answer) ==
    IF order_id \in DOMAIN d
    THEN [acc EXCEPT ![d[order_id]] = @ \/ answer] ELSE acc

\* faulty variant: the answer is written to every stored order
ReplyAccepted_Everyone(acc, d, order_id, answer) ==
    [r \in DOMAIN acc |->
        IF \E k \in DOMAIN d : d[k] = r THEN answer ELSE acc[r]]

\* quote_reply, lines 249-250: the accepted flags after the call
ReplyAccepted(acc, d, order_id, answer) ==
    IF order_id \in DOMAIN d THEN [acc EXCEPT ![d[order_id]] = answer] ELSE acc

\* quote_reply, lines 249-250, the release of the lock, and the response of
\* handle_quote_request (line 152)
QuoteReply(t) ==
    /\ pc[t] = "quote_reply"
    /\ lock = Some(t)
    /\ accepted' = ReplyAccepted(accepted, orders, call[t].order_id,
                                 local[t].answer)
    /\ Release(t)
    /\ Return(t, RetResponse(IF local[t].return_code # 200
                             THEN "answer was not true/false, using false"
                             ELSE IF local[t].answer THEN "set to True"
                             ELSE "set to False",
                             local[t].return_code))
    /\ UNCHANGED <<cfg, booted, orders, total_cost, df, calls, priced,
                   submitted, seeded>>

\* ---------------------------------------------------------------------- quote

\* quote, line 258: with self._order_lock
QuoteAcquire(t, order_id) ==
    /\ CanCall(t)
    /\ Acquire(t)
    /\ Begin(t, [op |-> "quote", order_id |-> order_id], NoLocal, "quote_lookup")
    /\ UNCHANGED <<cfg, booted, orders, total_cost, df, accepted, last, priced,
                   submitted, seeded>>

\* quote, lines 259-262: the lookup under the lock, its release, and the
\* return of None for an id that is not stored
QuoteLookup(t) ==
    /\ pc[t] = "quote_lookup"
    /\ lock = Some(t)
    /\ Release(t)
    /\ IF call[t].order_id \in DOMAIN orders
       THEN /\ local' = [local EXCEPT ![t] = [order |-> orders[call[t].order_id]]]
            /\ pc' = [pc EXCEPT ![t] = "quote_compute"]
            /\ UNCHANGED <<call, last>>
       ELSE Return(t, RetNone)
    /\ UNCHANGED <<cfg, booted, orders, total_cost, df, accepted, calls, priced,
                   submitted, seeded>>

\* quote, lines 264-265: what a call returns for an order that holds a total
CachedQuote(total, frame) == RetFloat(total[1])

\* quote, lines 264-337, taken without the lock: the cached total is returned
\* when there is one; else the total and the DataFrame are computed from the
\* object found in the lookup, or a KeyError leaves the call.
QuoteCompute(t) ==
    /\ pc[t] = "quote_compute"
    /\ LET r == local[t].order
       IN  IF ~ IsNone(total_cost[r])
           THEN Return(t, CachedQuote(total_cost[r], df[r])) /\ UNCHANGED priced
           ELSE IF HasKeyError(cfg, OrderData[r].packages)
           THEN Return(t, RaisedKeyError) /\ UNCHANGED priced
           ELSE /\ local' = [local EXCEPT ![t] =
                               [order |-> r,
                                total_to_pay |-> TotalToPay(cfg, OrderData[r]),
                                df |-> QuoteFrame(cfg, OrderData[r])]]
                /\ pc' = [pc EXCEPT ![t] = "quote_lock"]
                /\ priced' = [priced EXCEPT ![r] = @ + 1]
                /\ UNCHANGED <<call, last>>
    /\ UNCHANGED <<cfg, booted, orders, total_cost, df, accepted, lock, calls,
                   submitted, seeded>>

\* quote, line 339: with self._order_lock
QuoteStoreAcquire(t) ==
    /\ pc[t] = "quote_lock"
    /\ Acquire(t)
    /\ pc' = [pc EXCEPT ![t] = "quote_store"]
    /\ UNCHANGED <<cfg, booted, orders, total_cost, df, accepted, call, local,
                   last, calls, priced, submitted, seeded>>

\* quote, lines 340-343: the total and the DataFrame are stored on the object
\* the mapping holds under order_id now, and the DataFrame is returned.
QuoteStore(t) ==
    /\ pc[t] = "quote_store"
    /\ lock = Some(t)
    /\ total_cost' = [total_cost EXCEPT ![orders[call[t].order_id]] =
                         Some(local[t].total_to_pay)]
    /\ df' = [df EXCEPT ![orders[call[t].order_id]] = Some(local[t].df)]
    /\ Release(t)
    /\ Return(t, RetFrame(local[t].df))
    /\ UNCHANGED <<cfg, booted, orders, accepted, calls, priced, submitted,
                   seeded>>

\* ---------------------------------------------------------------------- system

Next ==
    \/ \E seeds \in SeedLists : AddSimulatedData(seeds)
    \/ \E t \in Threads :
        \/ \E r \in Refs : AddOrderCheck(t, r)
        \/ AddOrderStore(t)
        \/ \E q \in IdQueries : FindById(t, q)
        \/ \E q \in NoLocationQueries : FindNoLocation(t, q)
        \/ \E q \in LocationQueries : FindAcquire(t, q)
        \/ FindSnapshot(t)
        \/ \E r \in Refs : FindCompareLocation(t, r)
        \/ FindLocationDone(t)
        \/ \E r \in Refs : FindCompareDate(t, r)
        \/ FindDateDone(t)
        \/ \E id \in AcceptIds, a \in AcceptValues : HandleAcceptRequest(t, id, a)
        \/ QuoteReply(t)
        \/ \E id \in QuoteIds : QuoteAcquire(t, id)
        \/ QuoteLookup(t)
        \/ QuoteCompute(t)
        \/ QuoteStoreAcquire(t)
        \/ QuoteStore(t)

Spec == Init /\ [][Next]_vars

\* The steps a request thread takes once it is inside a call.  The scheduler
\* runs every thread that can take a step; whether a client sends a request
\* is up to the client.
Step(t) ==
    \/ AddOrderStore(t)
    \/ FindSnapshot(t)
    \/ \E r \in Refs : FindCompareLocation(t, r)
    \/ FindLocationDone(t)
    \/ \E r \in Refs : FindCompareDate(t, r)
    \/ FindDateDone(t)
    \/ QuoteReply(t)
    \/ QuoteLookup(t)
    \/ QuoteCompute(t)
    \/ QuoteStoreAcquire(t)
    \/ QuoteStore(t)

FairSpec == Spec /\ \A t \in Threads : WF_vars(Step(t))

\* ------------------------------------------------------- pricing on its own

\* The computation of quote(), lines 267-337, for every order and every rate
\* configuration of a bounded family: the order is the object the lookup of
\* line 259 found, the configuration is what __init__ read.

\* the longest package list of a priced order
MaxPackages == 2

SeqsUpTo(S, n) == UNION { [1..k -> S] : k \in 0..n }

PricePackages == {PkgLi75, PkgLi40, PkgNicd, PkgOdd}
PriceDistances == {0, 5, 30}

\* the fields of an Order that lines 267-337 read
PriceOrders ==
    { [distance_to_ship |-> d, packages |-> ps] :
        d \in PriceDistances, ps \in SeqsUpTo(PricePackages, MaxPackages) }

\* every table of ConfigA and ConfigB, and the empty table, in every
\* combination
PriceConfigs ==
    { [qualities |-> q, weights |-> w, distance |-> d,
       battery_base_value |-> b, bonus |-> n] :
        q \in {<<>>, ConfigA.qualities, ConfigB.qualities},
        w \in {<<>>, ConfigA.weights, ConfigB.weights},
        d \in {<<>>, ConfigA.distance, ConfigB.distance},
        b \in {ConfigA.battery_base_value, ConfigB.battery_base_value},
        n \in {<<>>, ConfigA.bonus, ConfigB.bonus} }

\* the local variables of quote() at line 337
QuoteLocals(c, order) ==
    LET n == Len(order.packages)
        total_weight == SumSeq(PackageWeights(order.packages))
    IN  [distance_mult |-> DistanceMult(c.distance, order.distance_to_ship),
         base_shipping |-> BaseShipping(c, order),
         quality_mult |-> [i \in 1..n |->
                             QualityMult(c.qualities, order.packages[i].quality)],
         total_value |-> SumSeq(PackageValues(c, order.packages)),
         total_weight |-> total_weight,
         weight_mult |-> WeightMult(c.weights, total_weight),
         subtotal |-> Subtotal(c, order),
         bonus |-> BonusPercent(c.bonus, n),
         total_to_pay |-> TotalToPay(c, order),
         df |-> QuoteFrame(c, order)]

PriceInit ==
    /\ cfg \in PriceConfigs
    /\ booted = FALSE
    /\ orders = << >>
    /\ total_cost = [r \in Refs |-> None]
    /\ df = [r \in Refs |-> None]
    /\ accepted = [r \in Refs |-> FALSE]
    /\ lock = None
    /\ pc = [t \in Threads |-> IF t = "t1" THEN "price" ELSE "idle"]
    /\ \E o \in PriceOrders :
          call = [t \in Threads |->
                    IF t = "t1" THEN [op |-> "quote", order |-> o] ELSE NoCall]
    /\ local = [t \in Threads |-> NoLocal]
    /\ last = [thread |-> "", call |-> NoCall, ret |-> RetNone]
    /\ calls = 0
    /\ priced = [r \in Refs |-> 0]
    /\ submitted = {}
    /\ seeded = {}

\* quote, lines 267-337: the locals at the end of the computation, or the
\* KeyError of line 290
PriceQuote(t) ==
    /\ pc[t] = "price"
    /\ IF HasKeyError(cfg, call[t].order.packages)
       THEN Return(t, RaisedKeyError)
       ELSE /\ local' = [local EXCEPT ![t] = QuoteLocals(cfg, call[t].order)]
            /\ pc' = [pc EXCEPT ![t] = "priced"]
            /\ UNCHANGED <<call, last>>
    /\ UNCHANGED <<cfg, booted, orders, total_cost, df, accepted, lock, calls,
                   priced, submitted, seeded>>

\* quote, line 343: return df
PriceReturn(t) ==
    /\ pc[t] = "priced"
    /\ Return(t, RetFrame(local[t].df))
    /\ UNCHANGED <<cfg, booted, orders, total_cost, df, accepted, lock, calls,
                   priced, submitted, seeded>>

PriceNext == \E t \in Threads : PriceQuote(t) \/ PriceReturn(t)

PricingSpec == PriceInit /\ [][PriceNext]_vars

\* --------------------------------------------------------------- properties

StoredRefs == OrderValues(orders)
Idle == \A t \in Threads : pc[t] = "idle"

\* C1: two getQuote calls in sequence for the same stored order return the
\* same result: whenever a caller's quote call returns right after an earlier
\* quote call of the same caller for the same order_id returned a quote, the
\* new result is of the same kind and equal to the earlier one.
C1_QuoteIdempotent ==
    [][ ( /\ last.call.op = "quote"
          /\ last'.call.op = "quote"
          /\ last'.thread = last.thread
          /\ last'.call.order_id = last.call.order_id
          /\ last.ret.kind \in {"DataFrame", "float"}
          /\ calls' = calls )
        => ( /\ last'.ret.kind = last.ret.kind
             /\ last'.ret.val = last.ret.val ) ]_vars

\* C2: the pricing computation runs at most once for every order object.
C2_PricedAtMostOnce == \A r \in Refs : priced[r] <= 1

\* C3: every cached total, every total a quote call has computed and every
\* total a quote call has returned is at least 100.00 (10000 cents).
C3_PriceFloor ==
    /\ \A r \in Refs : IsNone(total_cost[r]) \/ total_cost[r][1] >= 100 * 100
    /\ \A t \in Threads :
          pc[t] \in {"quote_lock", "quote_store"}
              => local[t].total_to_pay >= 100 * 100
    /\ last.call.op = "quote" =>
          /\ last.ret.kind = "float" => last.ret.val[1] >= 100 * 100
          /\ last.ret.kind = "DataFrame" =>
                LET totals == last.ret.val[1].Total
                IN  totals[Len(totals)] >= 100 * 100

\* a quote of more than the floor has been computed, cached and returned
C3_Witness ==
    /\ last.call.op = "quote"
    /\ last.ret.kind = "DataFrame"
    /\ \E r \in StoredRefs : /\ ~ IsNone(total_cost[r])
                             /\ total_cost[r][1] > 100 * 100
    /\ \E r \in StoredRefs : total_cost[r] = Some(100 * 100)

\* C4: an id that is in the mapping stays in it and keeps its order object,
\* in every step.
C4_NeverOverwritten ==
    [][ \A k \in DOMAIN orders : k \in DOMAIN orders' /\ orders'[k] = orders[k] ]_vars

IdsOf(S) == {OrderData[r].order_id : r \in S}

\* C5: once every add_order call has returned, if the objects handed to
\* add_order have pairwise distinct ids none of which was stored before, the
\* mapping holds exactly the seeded ids and those ids, each mapped to the
\* object added under it.
C5_NoLostInserts ==
    ( /\ \A t \in Threads : pc[t] # "add_store"
      /\ \A a, b \in submitted :
            a # b => OrderData[a].order_id # OrderData[b].order_id
      /\ IdsOf(submitted) \cap IdsOf(seeded) = {} )
    => ( /\ DOMAIN orders = IdsOf(seeded) \cup IdsOf(submitted)
         /\ \A r \in submitted : orders[OrderData[r].order_id] = r
         /\ \A r \in seeded : orders[OrderData[r].order_id] = r )

\* two callers have added two new orders to a store that held three
C5_Witness ==
    /\ Idle
    /\ Cardinality(submitted) = 2
    /\ Cardinality(seeded) = 2
    /\ IdsOf(submitted) \cap IdsOf(seeded) = {}
    /\ Cardinality(DOMAIN orders) = 4

\* field-wise equality of a wanted location with the location of object r:
\* the object has a location, every field is set on both sides, all agree
SameLocation(wanted, r) ==
    /\ ~ IsNone(OrderData[r].location)
    /\ \A f \in {"state", "city", "street_address", "zip_code"} :
          /\ ~ IsNone(wanted[f])
          /\ ~ IsNone(OrderData[r].location[1][f])
          /\ wanted[f] = OrderData[r].location[1][f]

SameDate(wanted, r) ==
    /\ ~ IsNone(OrderData[r].date)
    /\ \A f \in {"day", "month", "year"} :
          /\ ~ IsNone(wanted[f])
          /\ ~ IsNone(OrderData[r].date[1][f])
          /\ wanted[f] = OrderData[r].date[1][f]

NoDuplicates(l) == \A i, j \in 1..Len(l) : i # j => l[i] # l[j]

StoreState == <<orders, total_cost, df, accepted>>

\* C7: a search with neither an order_id nor a location returns the None
\* signal, which is no list, whatever the date, and changes nothing stored.
C7_FindWithoutCriteria ==
    /\ [] ( ( /\ last.call.op = "find_orders"
              /\ IsNone(last.call.order_id)
              /\ IsNone(last.call.location) )
            => last.ret.kind = "None" )
    /\ [][ ( /\ last'.call.op = "find_orders"
             /\ IsNone(last'.call.order_id)
             /\ IsNone(last'.call.location)
             /\ calls' = calls + 1
             /\ pc' = pc )
           => UNCHANGED StoreState ]_vars

\* such a search, with a date, has returned from a store that holds orders
C7_Witness ==
    /\ last.call.op = "find_orders"
    /\ IsNone(last.call.order_id)
    /\ IsNone(last.call.location)
    /\ ~ IsNone(last.call.date)
    /\ last.ret.kind = "None"
    /\ StoredRefs # {}

OrdersIn(l) == { l[i][1] : i \in { j \in 1..Len(l) : ~ IsNone(l[j]) } }

\* C8: a search by order_id returns a list of at most one element that holds
\* exactly the object stored under the id, or no order when the id is not
\* stored; location and date do not matter and it is never an error.
C8_FindByIdExact ==
    [][ ( /\ last'.call.op = "find_orders"
          /\ ~ IsNone(last'.call.order_id)
          /\ calls' = calls + 1
          /\ pc' = pc )
        => /\ last'.ret.kind = "list"
           /\ Len(last'.ret.val) <= 1
           /\ OrdersIn(last'.ret.val)
                = { orders[k] : k \in DOMAIN orders \cap {last'.call.order_id} } ]_vars

\* a search by id that also names a location and a date that the order does
\* not have has returned the order stored under the id
C8_Witness ==
    /\ last.call.op = "find_orders"
    /\ last.call.order_id = Some(2)
    /\ last.call.location = Some(LocB)
    /\ last.ret.kind = "list"
    /\ last.ret.val = <<Some("o2")>>

\* the step of thread t in which quote_reply runs and the request returns
ReplyStep(t) == pc[t] = "quote_reply" /\ pc'[t] = "idle"

\* C9: an acceptance with a boolean b always takes effect: a thread that has
\* entered quote_reply can take its step, and the step leaves accepted = b on
\* the order stored under the id, whatever the flag and the cached quote were.
C9_AcceptanceUnrestricted ==
    /\ [] ( \A t \in Threads : pc[t] = "quote_reply" => ENABLED QuoteReply(t) )
    /\ [][ \A t \in Threads :
             ( /\ ReplyStep(t)
               /\ call[t].accept[1] = "bool"
               /\ call[t].order_id \in DOMAIN orders )
             => accepted'[orders[call[t].order_id]] = call[t].accept[2] ]_vars

\* a priced order is not accepted after an acceptance with false
C9_Witness ==
    /\ last.call.op = "handle_quote_request"
    /\ last.call.accept = <<"bool", FALSE>>
    /\ last.call.order_id \in DOMAIN orders
    /\ ~ IsNone(total_cost[orders[last.call.order_id]])
    /\ ~ accepted[orders[last.call.order_id]]

\* C10 as stated: an acceptance whose value is no boolean is answered with
\* status 400 and leaves every accepted flag as it was.
C10_NonBooleanLeavesFlag ==
    [][ \A t \in Threads :
          ( ReplyStep(t) /\ call[t].accept[1] # "bool" )
          => /\ last'.ret.val[2] = 400
             /\ accepted' = accepted ]_vars

\* C10 amended: an acceptance whose value is no boolean is answered with
\* status 400 and sets the accepted flag of the order stored under the id to
\* false; the flag of every other order is as it was.
C10_NonBooleanResetsFlag ==
    [][ \A t \in Threads :
          ( ReplyStep(t) /\ call[t].accept[1] # "bool" )
          => /\ last'.ret.val[2] = 400
             /\ \A r \in Refs :
                   accepted'[r] =
                       IF /\ call[t].order_id \in DOMAIN orders
                          /\ r = orders[call[t].order_id]
                       THEN FALSE ELSE accepted[r] ]_vars

\* a request with a value that is no boolean was answered 400 for a stored
\* order, which is not accepted, while another order is accepted
C10_Witness ==
    /\ last.call.op = "handle_quote_request"
    /\ last.call.accept[1] # "bool"
    /\ last.call.order_id \in DOMAIN orders
    /\ last.ret.val[2] = 400
    /\ ~ accepted[orders[last.call.order_id]]
    /\ \E r \in StoredRefs : accepted[r]

\* C11: an acceptance request for a stored order whose accept value is not a
\* boolean is answered with status 400 and counts as a rejection: when it
\* returns, the accepted flag of the order stored under the id is false,
\* whatever the flag was before the request.
C11_NonBooleanIsRejection ==
    [][ \A t \in Threads :
          ( /\ ReplyStep(t)
            /\ ~ IsBool(call[t].accept)
            /\ call[t].order_id \in DOMAIN orders )
          => /\ last'.thread = t
             /\ last'.call = call[t]
             /\ last'.ret.kind = "response"
             /\ last'.ret.val[2] = 400
             /\ ~ accepted'[orders'[call[t].order_id]] ]_vars

\* a request with a value that is no boolean was answered 400 for a stored
\* order that has a cached quote, and the order is not accepted
C11_Witness ==
    /\ last.call.op = "handle_quote_request"
    /\ ~ IsBool(last.call.accept)
    /\ last.call.order_id \in DOMAIN orders
    /\ last.ret.kind = "response"
    /\ last.ret.val[2] = 400
    /\ ~ IsNone(total_cost[orders[last.call.order_id]])
    /\ ~ accepted[orders[last.call.order_id]]

\* C12: a pricing data error is a quote failure of that order only: getQuote
\* for a stored order with a package whose battery_type has no base value
\* returns an absent result as a value, not a raised fault, and changes no
\* order; getQuote for an id that is not stored returns an absent result and
\* changes nothing.
C12_PricingErrorIsAbsentResult ==
    [][ \A t \in Threads :
          /\ ( pc[t] = "quote_lookup" /\ pc'[t] = "idle" )
             => /\ last'.thread = t
                /\ last'.ret.kind = "None"
                /\ StoreState' = StoreState
          /\ ( /\ pc[t] = "quote_compute" /\ pc'[t] # "quote_compute"
               /\ IsNone(total_cost[local[t].order])
               /\ HasKeyError(cfg, OrderData[local[t].order].packages) )
             => /\ pc'[t] = "idle"
                /\ last'.thread = t
                /\ last'.ret.kind = "None"
                /\ StoreState' = StoreState ]_vars

\* the tiers of a table that a value matches, by position
Matching(tiers, Cond(_)) == { i \in 1..Len(tiers) : Cond(tiers[i]) }
FirstOf(M) == CHOOSE i \in M : \A j \in M : i <= j
LastOf(M) == CHOOSE i \in M : \A j \in M : j <= i

\* the computation has reached line 337 for the order of thread t
Priced(t) == pc[t] = "priced"

\* C13: for every ordered tier table, overlapping tiers included, the quality
\* multiplier of a package is that of the last tier with max_percent >= its
\* quality, the distance multiplier that of the last tier with min_distance
\* <= the distance, the bonus percent that of the last tier with min_packages
\* <= the package count (0 when none matches), and the weight multiplier
\* that of the first tier with max_weight >= the total weight (1.0 when
\* none matches).
C13_TierMatchDirection ==
    \A t \in Threads :
        Priced(t) =>
        LET o == call[t].order
            l == local[t]
            n == Len(o.packages)
            AtDistance(tier) == tier.min_distance <= o.distance_to_ship
            AtCount(tier) == tier.min_packages <= n
            AtWeight(tier) == tier.max_weight >= l.total_weight
            D == Matching(cfg.distance, AtDistance)
            B == Matching(cfg.bonus, AtCount)
            W == Matching(cfg.weights, AtWeight)
        IN  /\ \A i \in 1..n :
                 LET AtQuality(tier) == tier.max_percent >= o.packages[i].quality
                     Q == Matching(cfg.qualities, AtQuality)
                 IN  Q # {} =>
                        l.quality_mult[i] = cfg.qualities[LastOf(Q)].multiplier
            /\ D # {} => l.distance_mult = cfg.distance[LastOf(D)].multiplier
            /\ l.bonus = IF B = {} THEN 0 ELSE cfg.bonus[LastOf(B)].percent
            /\ l.weight_mult =
                  IF W = {} THEN 100 ELSE cfg.weights[FirstOf(W)].multiplier

\* an order priced with four tables in each of which two tiers match and the
\* first and the last matching tier carry different multipliers
C13_Witness ==
    /\ Priced("t1")
    /\ cfg = ConfigB
    /\ call["t1"].order = [distance_to_ship |-> 30,
                           packages |-> <<PkgLi75, PkgNicd>>]
    /\ local["t1"].quality_mult = <<101, 55>>
    /\ local["t1"].distance_mult = 333
    /\ local["t1"].bonus = 15
    /\ local["t1"].total_weight = 4
    /\ local["t1"].weight_mult = 25

Today == [day |-> Some(1), month |-> Some(10), year |-> Some(2023)]

\* C15: a lookup that supplies only a pickup location returns only orders at
\* that location whose date is today or in the future; an order at the
\* location whose date lies in the past is not returned.
C15_LocationOnlyFuture ==
    [][ \A t \in Threads :
          ( /\ pc[t] = "find_location" /\ pc'[t] = "idle"
            /\ IsNone(call[t].date) )
          => /\ last'.ret.kind = "list"
             /\ \A i \in 1..Len(last'.ret.val) :
                   LET r == last'.ret.val[i][1]
                   IN  /\ SameLocation(call[t].location[1], r)
                       /\ ~ IsNone(OrderData[r].date)
                       /\ DateGe(OrderData[r].date[1], Today) ]_vars

\* the positions of a thread inside a "with self._order_lock" block
InLockBlock(t) ==
    pc[t] \in {"find_snapshot", "quote_lookup", "quote_reply", "quote_store"}

\* thread t takes a step that started and finished a call at once
CompletesAtOnce(t) == calls' = calls + 1 /\ pc' = pc /\ last'.thread = t

\* C16: every step of add, find, setAcceptance or getQuote that reads or
\* writes the order mapping, or writes the accepted flag or the cached quote
\* of an order, is taken while its thread holds the order lock, and at most
\* one thread holds the lock at a time.
C16_LockDiscipline ==
    /\ [] ( \A t, u \in Threads :
               ( InLockBlock(t) /\ InLockBlock(u) ) => ( t = u /\ lock = Some(t) ) )
    /\ [][ \A t \in Threads :
             \* writes of the mapping and of the fields of an order
             /\ ( pc'[t] # pc[t] /\ StoreState' # StoreState )
                => lock = Some(t)
             \* reads of the mapping: the snapshot and the lookups
             /\ ( pc[t] \in {"find_snapshot", "quote_lookup"} /\ pc'[t] # pc[t] )
                => lock = Some(t)
             \* the membership test of add
             /\ ( \/ pc[t] = "idle" /\ pc'[t] = "add_store"
                  \/ CompletesAtOnce(t) /\ last'.call.op = "add_order" )
                => lock = Some(t)
             \* the lookup of find by id
             /\ ( /\ CompletesAtOnce(t)
                  /\ last'.call.op = "find_orders"
                  /\ ~ IsNone(last'.call.order_id) )
                => lock = Some(t) ]_vars

\* the breakdown of thread t but for the Shipping entry of the totals: one
\* entry per package in package order, and the totals
BreakdownRows(t) ==
    LET o == call[t].order
        l == local[t]
        f == l.df
        n == Len(o.packages)
    IN  /\ Len(f.BatteryType) = n + 1 /\ Len(f.Weight) = n + 1
        /\ Len(f.Quality) = n + 1 /\ Len(f.AssessedValue) = n + 1
        /\ Len(f.Bonus) = n + 1 /\ Len(f.Shipping) = n + 1
        /\ Len(f.Total) = n + 1
        /\ \A i \in 1..n :
              /\ f.BatteryType[i] = o.packages[i].battery_type
              /\ f.Weight[i] = o.packages[i].battery_weight
              /\ f.Quality[i] = o.packages[i].quality
              /\ f.AssessedValue[i] =
                    cfg.battery_base_value[o.packages[i].battery_type]
                      * l.quality_mult[i]
        /\ f.Weight[n + 1] = l.total_weight
        /\ f.AssessedValue[n + 1] = l.total_value
        /\ f.Bonus[n + 1] = l.bonus
        /\ f.Total[n + 1] = l.total_to_pay

\* C17: the breakdown of a quote has one entry per package of the order
\* (type, weight, quality, assessed value), in package order, and totals:
\* the summed weight, the summed assessed value, the bonus percent applied,
\* the shipping deduction applied (shipping base times weight multiplier,
\* the amount subtracted from the value) and the final total.
\* The Shipping entry is in cents, the deduction in 1/10000 dollar.
C17_BreakdownShowsDeduction ==
    \A t \in Threads :
        Priced(t) =>
            /\ BreakdownRows(t)
            /\ local[t].df.Shipping[Len(call[t].order.packages) + 1] * 100
                  = local[t].base_shipping * local[t].weight_mult
            /\ local[t].total_value - local[t].subtotal
                  = local[t].base_shipping * local[t].weight_mult

\* max(S + S * bonus / 100, 100.00) rounded to 2 decimals, in cents, where
\* S = (sum over the packages of base value * quality multiplier)
\*     - distance * distance multiplier * weight multiplier,
\* with the multipliers of the matching tiers by position.
ExpectedTotal(c, o) ==
    LET n == Len(o.packages)
        AtDistance(tier) == tier.min_distance <= o.distance_to_ship
        AtCount(tier) == tier.min_packages <= n
        D == Matching(c.distance, AtDistance)
        B == Matching(c.bonus, AtCount)
        qm(i) == LET AtQuality(tier) == tier.max_percent >= o.packages[i].quality
                     Q == Matching(c.qualities, AtQuality)
                 IN  IF Q = {} THEN 0 ELSE c.qualities[LastOf(Q)].multiplier
        value[k \in 0..n] ==
            IF k = 0 THEN 0
            ELSE value[k - 1]
                   + c.battery_base_value[o.packages[k].battery_type] * qm(k)
        weight[k \in 0..n] ==
            IF k = 0 THEN 0 ELSE weight[k - 1] + o.packages[k].battery_weight
        AtWeight(tier) == tier.max_weight >= weight[n]
        W == Matching(c.weights, AtWeight)
        dm == IF D = {} THEN 100 ELSE c.distance[LastOf(D)].multiplier
        wm == IF W = {} THEN 100 ELSE c.weights[FirstOf(W)].multiplier
        bonus == IF B = {} THEN 0 ELSE c.bonus[LastOf(B)].percent
        S == value[n] - o.distance_to_ship * dm * wm
        T == S * (100 + bonus)
        M == IF T >= MinTotal * 10000 THEN T ELSE MinTotal * 10000
        q == M \div 10000
        off(cents) == IF cents * 10000 >= M THEN cents * 10000 - M
                      ELSE M - cents * 10000
    IN  CHOOSE cents \in {q, q + 1} :
            \A d \in {q, q + 1} :
                \/ off(cents) < off(d)
                \/ off(cents) = off(d) /\ (cents = d \/ cents % 2 = 0)

\* one li-ion package of base value 10 at quality multiplier 1.0, distance 0,
\* no bonus for one package
ExampleOrder == [distance_to_ship |-> 0, packages |-> <<PkgLi75>>]

\* C18: for every order whose battery types are all in the base-value
\* mapping, the quoted total is max(S + S * bonus/100, 100.00) rounded to 2
\* decimals, S being the summed package values minus distance * distance
\* multiplier * weight multiplier; the example order has subtotal 10.0 and
\* total 100.00.
C18_TotalFormula ==
    \A t \in Threads :
        ( /\ Priced(t)
          /\ \A i \in 1..Len(call[t].order.packages) :
                call[t].order.packages[i].battery_type
                    \in DOMAIN cfg.battery_base_value )
        => /\ local[t].total_to_pay = ExpectedTotal(cfg, call[t].order)
           /\ local[t].df.Total[Len(call[t].order.packages) + 1]
                 = local[t].total_to_pay
           /\ ( cfg = ConfigA /\ call[t].order = ExampleOrder )
              => /\ local[t].subtotal = 100000
                 /\ local[t].bonus = 0
                 /\ local[t].total_to_pay = 10000

\* an order of two packages priced above the floor, with shipping deducted
\* and a bonus added: 397.82
C18_Witness ==
    /\ Priced("t1")
    /\ cfg = ConfigB
    /\ call["t1"].order = [distance_to_ship |-> 30,
                           packages |-> <<PkgLi75, PkgNicd>>]
    /\ local["t1"].subtotal = 3459326
    /\ local["t1"].bonus = 15
    /\ local["t1"].total_to_pay = 39782

\* thread t takes a step of a getQuote call
QuoteStep(t) ==
    /\ pc[t] \in {"idle", "quote_lookup", "quote_compute", "quote_lock",
                   "quote_store"}
    /\ pc'[t] \in {"idle", "quote_lookup", "quote_compute", "quote_lock",
                    "quote_store"}
    /\ pc'[t] # pc[t]

\* thread t takes a step of a setAcceptance request
AcceptStep(t) ==
    \/ pc[t] = "idle" /\ pc'[t] = "quote_reply"
    \/ ReplyStep(t)

\* C19: setAcceptance(id, b) changes nothing but the accepted flag of the
\* order stored under id (its cached quote, the key set and every other
\* order stay as they are) and changes nothing at all when id is not stored;
\* getQuote(id) changes nothing but the cached total and breakdown of the
\* order stored under id (every accepted flag and the key set stay).
C19_MutationFrame ==
    [][ \A t \in Threads :
          /\ AcceptStep(t)
             => /\ orders' = orders
                /\ total_cost' = total_cost
                /\ df' = df
                /\ \A r \in Refs :
                      ( \/ call[t].op = "none"
                        \/ call[t].order_id \notin DOMAIN orders
                        \/ r # orders[call[t].order_id] )
                      => accepted'[r] = accepted[r]
          /\ QuoteStep(t)
             => /\ orders' = orders
                /\ accepted' = accepted
                /\ \A r \in Refs :
                      ( \/ call[t].op = "none"
                        \/ call[t].order_id \notin DOMAIN orders
                        \/ r # orders[call[t].order_id] )
                      => /\ total_cost'[r] = total_cost[r]
                         /\ df'[r] = df[r] ]_vars

\* an order with a cached quote has been accepted while another stored order
\* with a cached quote is not accepted
C19_Witness ==
    /\ last.call.op = "handle_quote_request"
    /\ last.call.order_id \in DOMAIN orders
    /\ accepted[orders[last.call.order_id]]
    /\ ~ IsNone(total_cost[orders[last.call.order_id]])
    /\ \E r \in StoredRefs :
          /\ r # orders[last.call.order_id]
          /\ ~ accepted[r]
          /\ ~ IsNone(total_cost[r])

\* C20: under fair scheduling every started call returns, a getQuote that
\* ends in a pricing error included, every acquisition of the order lock is
\* followed by its release, and a search in its matching phase does not hold
\* the lock, so that it keeps no add or setAcceptance from completing.
\* (A thread that is outside a call again and again has returned from every
\* call it started; a lock that is free again and again was released after
\* every acquisition.)
C20_NoIndefiniteBlocking ==
    /\ \A t \in Threads : []<>( pc[t] = "idle" )
    /\ []<>( lock = None )
    /\ [] ( \A t \in Threads :
               pc[t] \in {"find_location", "find_date"} => lock # Some(t) )

\* a getQuote waits for the lock to store its result while a setAcceptance
\* holds the lock
C20_Witness ==
    /\ pc["t1"] = "quote_lock"
    /\ pc["t2"] = "quote_reply"
    /\ lock = Some("t2")
    /\ ~ ENABLED QuoteStoreAcquire("t1")

\* C21: after any sequence of seed loading and add calls, every order in the
\* mapping has an order_id that is not None and is stored under exactly that
\* order_id; a seed record or an added order without an order_id is never
\* stored.
C21_KeyInvariant ==
    /\ \A k \in DOMAIN orders :
          /\ ~ IsNone(k)
          /\ OrderData[orders[k]].order_id = k
    /\ \A r \in seeded \cup submitted :
          IsNone(OrderData[r].order_id) => r \notin StoredRefs

====
